---- MODULE Spec2Model ----
(***************************************************************************)
(* jira2things: JIRA issues are mirrored into a SQLite table (update_db),  *)
(* and the table's unsynced rows are pushed to Things (sync_to_things,     *)
(* resync_to_things).  The model follows main.py and database.py: the      *)
(* table jira_tickets is db, one invocation of main() is a walk of pc, and *)
(* JIRA and Things are the environment.                                    *)
(***************************************************************************)
EXTENDS Integers, Sequences, FiniteSets, TLC

\* ------------------------------------------------------------------ bounds
MaxRuns == 2       \* invocations of main() and calls of mark_present in one behaviour
MaxEdits == 2      \* changes made at the JIRA side in one behaviour

\* ------------------------------------------------------------------ values
NULL == "NULL"                      \* Python None, SQL NULL
Truthy(x) == x \notin {NULL, ""}    \* Python truth value of an optional string

TicketOrder == <<"T-1", "T-2">>     \* the issue keys, in the order JIRA lists them
Tickets == {TicketOrder[n] : n \in DOMAIN TicketOrder}

RECURSIVE SeqSum(_)
SeqSum(s) == IF s = <<>> THEN 0 ELSE Head(s) + SeqSum(Tail(s))

RECURSIVE Flatten(_)
Flatten(ss) == IF ss = <<>> THEN <<>> ELSE Head(ss) \o Flatten(Tail(ss))

Ids(s) == {s[n].ticket_id : n \in DOMAIN s}

\* ------------------------------------------------------------------ JIRA
\* What get_issues extracts from an issue with no sprint, the same issue with one
\* field edited, and the same issue put into a sprint.
BaseFields ==
    [summary |-> "Fix bug", description |-> "", has_subtasks |-> FALSE,
     status |-> "Open", issue_type |-> "Bug",
     sprint_name |-> NULL, sprint_status |-> NULL, sprint_end_time |-> ""]

Versions == {"base", "summary", "description", "status", "issue_type", "sprint"}

Fields(v) ==
    CASE v = "summary"         -> [BaseFields EXCEPT !.summary = "Fix the bug"]
      [] v = "description"     -> [BaseFields EXCEPT !.description = "steps"]
      [] v = "status"          -> [BaseFields EXCEPT !.status = "Done"]
      [] v = "issue_type"      -> [BaseFields EXCEPT !.issue_type = "Task"]
      [] v = "sprint"          -> [BaseFields EXCEPT !.sprint_name = "Sprint 1",
                                                     !.sprint_status = "active",
                                                     !.sprint_end_time = "2026-01-01T00:00:00+00:00"]
      [] OTHER                 -> BaseFields

\* The versions an issue takes in the model: every field of T-1 changes, T-2
\* only appears and disappears.
VersionsOf(t) == IF t = "T-1" THEN Versions ELSE {"base"}

Queries == {"JIRA_JQL_QUERY", "JIRA_JQL_QUERY__Work"}

\* The queries an issue can come to match: T-2 stays in the main query.
QuerySetsOf(t) == IF t = "T-1" THEN SUBSET Queries ELSE {{"JIRA_JQL_QUERY"}}

\* JiraTicket(...) as get_issues builds it: things_id, things_project and
\* last_updated keep their dataclass defaults.
JiraTicket(t, v) ==
    [ticket_id |-> t,
     summary |-> Fields(v).summary,
     description |-> Fields(v).description,
     has_subtasks |-> Fields(v).has_subtasks,
     status |-> Fields(v).status,
     issue_type |-> Fields(v).issue_type,
     sprint_name |-> Fields(v).sprint_name,
     sprint_status |-> Fields(v).sprint_status,
     sprint_end_time |-> Fields(v).sprint_end_time,
     things_id |-> NULL,
     present_in_last_fetch |-> TRUE,
     things_project |-> NULL,
     last_updated |-> 0]

\* ------------------------------------------------------------------ config
\* The configuration file: with or without THINGS_AUTH_TOKEN, no THINGS_PROJECT,
\* and one extra query JIRA_JQL_QUERY__Work.
Configs ==
    [THINGS_AUTH_TOKEN : {NULL, "token"}, THINGS_PROJECT : {NULL}]

_project_queries(cfg) ==
    << <<cfg.THINGS_PROJECT, "JIRA_JQL_QUERY">>,
       <<"Work", "JIRA_JQL_QUERY__Work">> >>

completed_status == {"Done"}
today_status == {"In Progress"}
someday_status == {"Backlog"}

\* ------------------------------------------------------------------ table
\* A row of jira_tickets as get_ticket_by_id, get_all_tickets and
\* get_unsynced_tickets return it: JiraTicket(*row).
AsTicket(row) ==
    [ticket_id |-> row.ticket_id,
     summary |-> row.summary,
     description |-> row.description,
     has_subtasks |-> row.has_subtasks,
     status |-> row.status,
     issue_type |-> row.issue_type,
     sprint_name |-> row.sprint_name,
     sprint_status |-> row.sprint_status,
     sprint_end_time |-> row.sprint_end_time,
     things_id |-> row.things_id,
     present_in_last_fetch |-> row.present_in_last_fetch,
     things_project |-> row.things_project,
     last_updated |-> row.last_updated]

HasRow(table, t) == \E n \in DOMAIN table : table[n].ticket_id = t
RowOf(table, t) == table[CHOOSE n \in DOMAIN table : table[n].ticket_id = t]

\* get_ticket_by_id, for a ticket that has a row (None otherwise: HasRow).
get_ticket_by_id(table, t) == AsTicket(RowOf(table, t))

\* Mutant: the SELECT keeps the WHERE clause of get_unsynced_tickets.
get_all_tickets_where(table) ==
    LET rows == SelectSeq(table, LAMBDA row : row.synced_to_things = "not synced")
    IN [n \in DOMAIN rows |-> AsTicket(rows[n])]

get_all_tickets(table) == [n \in DOMAIN table |-> AsTicket(table[n])]

\* Mutant: the WHERE clause leaves out the unknown rows only.
IsNotSynced_or_synced(row) == row.synced_to_things # "unknown"

IsNotSynced(row) == row.synced_to_things = "not synced"

\* Mutant: every row not marked synced is selected, the unknown ones too.
IsNotMarkedSynced(row) == row.synced_to_things # "synced"
get_unsynced_tickets_any(table) ==
    LET rows == SelectSeq(table, IsNotMarkedSynced)
    IN [n \in DOMAIN rows |-> AsTicket(rows[n])]

\* Mutant: the SELECT returns one row only.
get_unsynced_tickets_one(table) ==
    LET rows == SelectSeq(table, IsNotSynced)
    IN [n \in DOMAIN rows \cap {1} |-> AsTicket(rows[n])]

get_unsynced_tickets(table) ==
    LET rows == SelectSeq(table, IsNotSynced)
    IN [n \in DOMAIN rows |-> AsTicket(rows[n])]

\* The comparison of save_ticket: TRUE when a stored row differs from the ticket.
has_changes(row, ticket) ==
    \/ row.summary # ticket.summary
    \/ row.description # ticket.description
    \/ row.status # ticket.status
    \/ row.issue_type # ticket.issue_type
    \/ row.sprint_name # ticket.sprint_name
    \/ row.sprint_status # ticket.sprint_status
    \/ row.sprint_end_time # ticket.sprint_end_time
    \/ row.things_project # ticket.things_project

\* Mutant: the ticket's things_id is written as it comes.
kept_things_id_incoming(row, ticket) == ticket.things_id

\* The things_id save_ticket writes: the ticket's, else the stored one.
kept_things_id(row, ticket) ==
    IF ~Truthy(ticket.things_id) THEN row.things_id ELSE ticket.things_id

\* Mutant: the INSERT marks the new row synced.
InsertedRow_synced(ticket, now) ==
    [ticket_id |-> ticket.ticket_id,
     summary |-> ticket.summary,
     description |-> ticket.description,
     has_subtasks |-> ticket.has_subtasks,
     status |-> ticket.status,
     issue_type |-> ticket.issue_type,
     sprint_name |-> ticket.sprint_name,
     sprint_status |-> ticket.sprint_status,
     sprint_end_time |-> ticket.sprint_end_time,
     things_id |-> ticket.things_id,
     things_project |-> ticket.things_project,
     added_to_db |-> now,
     present_in_last_fetch |-> TRUE,
     synced_to_things |-> "synced",
     last_updated |-> now]

\* Mutant: the UPDATE leaves synced_to_things as it was.
UpdatedRow_keeps_state(row, ticket, now) ==
    [row EXCEPT !.summary = ticket.summary,
                !.description = ticket.description,
                !.has_subtasks = ticket.has_subtasks,
                !.status = ticket.status,
                !.issue_type = ticket.issue_type,
                !.sprint_name = ticket.sprint_name,
                !.sprint_status = ticket.sprint_status,
                !.sprint_end_time = ticket.sprint_end_time,
                !.things_id = IF ~Truthy(ticket.things_id) THEN row.things_id
                              ELSE ticket.things_id,
                !.things_project = ticket.things_project,
                !.last_updated = now]

UpdatedRow(row, ticket, now) ==
    [row EXCEPT !.summary = ticket.summary,
                !.description = ticket.description,
                !.has_subtasks = ticket.has_subtasks,
                !.status = ticket.status,
                !.issue_type = ticket.issue_type,
                !.sprint_name = ticket.sprint_name,
                !.sprint_status = ticket.sprint_status,
                !.sprint_end_time = ticket.sprint_end_time,
                !.things_id = kept_things_id(row, ticket),
                !.things_project = ticket.things_project,
                !.synced_to_things = "not synced",
                !.last_updated = now]

InsertedRow(ticket, now) ==
    [ticket_id |-> ticket.ticket_id,
     summary |-> ticket.summary,
     description |-> ticket.description,
     has_subtasks |-> ticket.has_subtasks,
     status |-> ticket.status,
     issue_type |-> ticket.issue_type,
     sprint_name |-> ticket.sprint_name,
     sprint_status |-> ticket.sprint_status,
     sprint_end_time |-> ticket.sprint_end_time,
     things_id |-> ticket.things_id,
     things_project |-> ticket.things_project,
     added_to_db |-> now,
     present_in_last_fetch |-> TRUE,
     synced_to_things |-> "not synced",
     last_updated |-> now]

\* Mutant: the connection is not closed when the block is left.
with_connection_left_open(statements) == <<"connect">> \o statements

\* "with self.get_connection() as conn": the connection is opened, the block
\* runs, and the connection is closed however the block is left.
with_connection(statements) == <<"connect">> \o statements \o <<"close">>

\* What save_ticket does with its connection.
save_ticket_events(table, ticket) ==
    with_connection(
        <<"SELECT">> \o
        (IF ~HasRow(table, ticket.ticket_id) THEN <<"INSERT", "commit">>
         ELSE IF has_changes(RowOf(table, ticket.ticket_id), ticket)
              THEN <<"UPDATE", "commit">>
              ELSE <<>>))

\* save_ticket: the table after the call.
save_ticket(table, ticket, now) ==
    IF HasRow(table, ticket.ticket_id)
    THEN [n \in DOMAIN table |->
            IF table[n].ticket_id = ticket.ticket_id /\ has_changes(table[n], ticket)
            THEN UpdatedRow(table[n], ticket, now)
            ELSE table[n]]
    ELSE Append(table, InsertedRow(ticket, now))

\* Mutant: a presence flip demotes the row whatever its state was.
MarkedRow_any_state(row, ticket_ids) ==
    [row EXCEPT !.present_in_last_fetch = (row.ticket_id \in ticket_ids),
                !.synced_to_things =
                    IF row.present_in_last_fetch # (row.ticket_id \in ticket_ids)
                    THEN "not synced"
                    ELSE row.synced_to_things]

\* Mutant: a presence flip of a synced row writes 'unknown'.
MarkedRow_unknown(row, ticket_ids) ==
    [row EXCEPT !.present_in_last_fetch = (row.ticket_id \in ticket_ids),
                !.synced_to_things =
                    IF row.synced_to_things = "synced"
                       /\ row.present_in_last_fetch # (row.ticket_id \in ticket_ids)
                    THEN "unknown"
                    ELSE row.synced_to_things]

\* The single UPDATE of mark_present, per row, read from the row's old values.
MarkedRow(row, ticket_ids) ==
    [row EXCEPT !.present_in_last_fetch = (row.ticket_id \in ticket_ids),
                !.synced_to_things =
                    IF row.synced_to_things = "synced"
                       /\ row.present_in_last_fetch # (row.ticket_id \in ticket_ids)
                    THEN "not synced"
                    ELSE row.synced_to_things]

\* Mutant: the rows of the tickets not in the list are deleted.
mark_present_deletes(table, all_issues) ==
    LET InList(row) == row.ticket_id \in Ids(all_issues)
    IN IF Ids(all_issues) = {} THEN table
       ELSE [n \in DOMAIN SelectSeq(table, InList) |->
                MarkedRow(SelectSeq(table, InList)[n], Ids(all_issues))]

\* Mutant: no early return for an empty list.
mark_present_always(table, all_issues) ==
    [n \in DOMAIN table |-> MarkedRow(table[n], Ids(all_issues))]

mark_present(table, all_issues) ==
    LET ticket_ids == Ids(all_issues)
    IN IF ticket_ids = {} THEN table
       ELSE [n \in DOMAIN table |-> MarkedRow(table[n], ticket_ids)]

\* Mutant: the UPDATE after AddTask also moves last_updated.
SetSyncedWithId_touches(table, t, things_id) ==
    [n \in DOMAIN table |->
        IF table[n].ticket_id = t
        THEN [table[n] EXCEPT !.synced_to_things = "synced", !.things_id = things_id,
                              !.last_updated = @ + 1]
        ELSE table[n]]

\* Mutant: the UPDATE after AddTask sets the state and not the things_id.
SetSyncedWithId_state_only(table, t, things_id) ==
    [n \in DOMAIN table |->
        IF table[n].ticket_id = t
        THEN [table[n] EXCEPT !.synced_to_things = "synced"]
        ELSE table[n]]

\* The two UPDATE statements of the sync passes.
SetSyncedWithId(table, t, things_id) ==
    [n \in DOMAIN table |->
        IF table[n].ticket_id = t
        THEN [table[n] EXCEPT !.synced_to_things = "synced", !.things_id = things_id]
        ELSE table[n]]

\* Mutant: the UPDATE of the state also writes an empty things_id.
SetSyncState_and_id(table, t, state) ==
    [n \in DOMAIN table |->
        IF table[n].ticket_id = t
        THEN [table[n] EXCEPT !.synced_to_things = state, !.things_id = NULL]
        ELSE table[n]]

\* Mutant: the UPDATE after a failed call writes 'not synced'.
SetSyncState_not_synced(table, t, state) ==
    [n \in DOMAIN table |->
        IF table[n].ticket_id = t
        THEN [table[n] EXCEPT !.synced_to_things =
                                 IF state = "unknown" THEN "not synced" ELSE state]
        ELSE table[n]]

SetSyncState(table, t, state) ==
    [n \in DOMAIN table |->
        IF table[n].ticket_id = t
        THEN [table[n] EXCEPT !.synced_to_things = state]
        ELSE table[n]]

\* ------------------------------------------------------------------ Things
\* What AddTask(**kwargs).x_things_id can be when AddTask returns: an id Things
\* assigned, or nothing.
ThingsIds == {"things-a", "things-b"}
AddResults(t) == IF t = "T-1" THEN {"things-a", NULL} ELSE {"things-b"}

_build_things_task_data(ticket, jira_type_tag) ==
    [title |-> <<ticket.ticket_id, ticket.summary>>,
     notes |-> <<ticket.ticket_id, ticket.description>>,
     tags |-> IF jira_type_tag /\ Truthy(ticket.issue_type)
              THEN <<ticket.issue_type>> ELSE <<>>,
     list_str |-> ticket.things_project,
     when |-> IF ticket.status \in today_status THEN "today"
              ELSE IF ticket.status \in someday_status THEN "someday"
              ELSE "anytime",
     completed |-> ticket.status \in completed_status]

\* The planner of the sync passes.
NoThingsId(t) == ~Truthy(t.things_id)
WithThingsId(t) == Truthy(t.things_id)
\* Mutant: every ticket is planned as new.
plan_new_all(tickets) == tickets

plan_new(tickets) == SelectSeq(tickets, NoThingsId)

\* Mutant: the tickets to update come out in reverse order.
plan_update_reversed(tickets) ==
    [n \in DOMAIN SelectSeq(tickets, WithThingsId) |->
        SelectSeq(tickets, WithThingsId)[Len(SelectSeq(tickets, WithThingsId)) + 1 - n]]

plan_update(tickets) == SelectSeq(tickets, WithThingsId)

\* ------------------------------------------------------------------ state
VARIABLES
    config,           \* the configuration file
    jira,             \* JIRA: per issue key its version and the queries it matches
    db,               \* the rows of jira_tickets, in insertion order
    pc,               \* where main() is
    mode,             \* the flag main() was started with
    issues_by_query,  \* update_db: the fetched (project_name, issues) pairs
    pos,              \* update_db: index of the next issue in loop order
    db_counts,        \* update_db: added_count, updated_count, unchanged_count
    new_tickets,      \* sync passes: tickets to AddTask
    update_tickets,   \* sync passes: tickets to UpdateTask
    ni,               \* sync passes: index of the next new ticket
    ui,               \* sync passes: index of the next update ticket
    things_counts,    \* sync passes: added_count, updated_count, failed_count
    report,           \* the summary lines logged by the invocation so far
    runs,             \* invocations started; also the clock of CURRENT_TIMESTAMP
    edits,            \* changes made at the JIRA side
    lastCall,         \* history: the last call made to Things in this invocation
    lastOp,           \* history: the last operation on the table
    writes,           \* history: statements that wrote the table in this invocation
    hist,             \* history: consecutive completed default runs over an unchanged JIRA
    firstId,          \* history: per ticket the first non-empty things_id stored
    sent,             \* history: per ticket the task data of the last call that
                      \* returned, kept while the row stays synced
    events,           \* history: what the last step did with the table's
                      \* connection and the network, in the order of the code
    cut,              \* history: what the last interrupted pass left behind,
                      \* kept while the next invocation is sync_to_things and
                      \* until that has made its plan
    other             \* a second invocation of main() at work on the same
                      \* database file: where it is and its locals

envVars == <<config, jira, edits>>
updVars == <<issues_by_query, pos, db_counts>>
syncVars == <<new_tickets, update_tickets, ni, ui, things_counts>>
vars == <<config, jira, db, pc, mode, issues_by_query, pos, db_counts,
          new_tickets, update_tickets, ni, ui, things_counts, report, runs,
          edits, lastCall, lastOp, writes, hist, firstId, sent, events, cut, other>>

Absent == [version |-> "absent", queries |-> {"JIRA_JQL_QUERY"}]
NoCall == [op |-> "none", seq |-> 0]
\* A call: what was passed, what came of it, and (known) the things_id the
\* table had ever stored for the ticket when the call was made.
Call(op, t, task_id, auth_token, kwargs, outcome, returned, known, seq) ==
    [op |-> op, ticket_id |-> t, task_id |-> task_id, auth_token |-> auth_token,
     kwargs |-> kwargs, outcome |-> outcome, returned |-> returned,
     known |-> known, seq |-> seq]
NoOp == [op |-> "none"]
NoCut == [pass |-> "none"]
NoOther == [pc |-> "idle", tickets |-> <<>>, pos |-> 1]
ZeroDb == [added |-> 0, updated |-> 0, unchanged |-> 0]
ZeroThings == [added |-> 0, updated |-> 0, failed |-> 0]
NoReport == [db |-> <<>>, things |-> <<>>]

\* The first non-empty things_id each ticket was stored with.
Remember(first, table) ==
    [t \in Tickets |->
        IF first[t] = NULL /\ HasRow(table, t) /\ Truthy(RowOf(table, t).things_id)
        THEN RowOf(table, t).things_id
        ELSE first[t]]

\* What is remembered of the calls that returned: the task data of a ticket whose
\* row is still synced.
Sent(s, table) ==
    [t \in Tickets |->
        IF HasRow(table, t) /\ RowOf(table, t).synced_to_things = "synced"
        THEN s[t]
        ELSE <<>>]

Init ==
    /\ config \in Configs
    /\ jira = [t \in Tickets |-> [version |-> "base", queries |-> {"JIRA_JQL_QUERY"}]]
    /\ db = <<>>
    /\ pc = "idle"
    /\ mode = "none"
    /\ issues_by_query = <<>>
    /\ pos = 1
    /\ db_counts = ZeroDb
    /\ new_tickets = <<>>
    /\ update_tickets = <<>>
    /\ ni = 1
    /\ ui = 1
    /\ things_counts = ZeroThings
    /\ report = NoReport
    /\ runs = 0
    /\ edits = 0
    /\ lastCall = NoCall
    /\ lastOp = NoOp
    /\ writes = 0
    /\ hist = 0
    /\ firstId = [t \in Tickets |-> NULL]
    /\ sent = [t \in Tickets |-> <<>>]
    /\ events = <<>>
    /\ cut = NoCut
    /\ other = NoOther

\* ------------------------------------------------------------------ JIRA side
\* An issue is edited, appears or disappears: one field of the base version is
\* edited, an edit is taken back, the issue leaves the queries or comes back.
JiraChange(t, v) ==
    /\ pc = "idle"
    /\ edits < MaxEdits
    /\ jira[t].version # v
    /\ jira[t].version = "base" \/ v \in {"base", "absent"}
    /\ jira' = [jira EXCEPT ![t] = IF v = "absent" THEN Absent
                                   ELSE [@ EXCEPT !.version = v]]
    /\ edits' = edits + 1
    /\ hist' = 0
    /\ UNCHANGED <<other, cut, config, db, pc, mode, updVars, syncVars, report, runs,
                   lastCall, lastOp, writes, firstId, sent, events>>

\* An issue starts or stops matching a configured query.
JiraMove(t, qs) ==
    /\ pc = "idle"
    /\ edits < MaxEdits
    /\ jira[t].version # "absent"
    /\ qs # {}
    /\ jira[t].queries # qs
    /\ jira' = [jira EXCEPT ![t].queries = qs]
    /\ edits' = edits + 1
    /\ hist' = 0
    /\ UNCHANGED <<other, cut, config, db, pc, mode, updVars, syncVars, report, runs,
                   lastCall, lastOp, writes, firstId, sent, events>>

\* The requests get_issues makes to JIRA.
get_issues_events == <<"fields", "search_issues">>

get_issues(source, query) ==
    LET Matches(t) == source[t].version # "absent" /\ query \in source[t].queries
        keys == SelectSeq(TicketOrder, Matches)
    IN [n \in DOMAIN keys |-> JiraTicket(keys[n], source[keys[n]].version)]

\* ------------------------------------------------------------------ main
Modes == {"update_db", "sync_to_things", "resync_to_things", "default"}

\* main(): the flag decides the first function called.
Main(m) ==
    /\ pc = "idle"
    /\ runs < MaxRuns
    /\ runs' = runs + 1
    /\ mode' = m
    /\ pc' = IF m \in {"update_db", "default"} THEN "update_db" ELSE m
    /\ hist' = IF m = "default" THEN hist ELSE 0
    /\ cut' = IF m = "sync_to_things" THEN cut ELSE NoCut
    /\ UNCHANGED <<other, envVars, db, updVars, syncVars, report, lastCall, lastOp,
                   writes, firstId, sent, events>>

\* main() returns.
Return ==
    /\ pc' = "done"
    /\ hist' = IF mode # "default" THEN 0 ELSE IF hist < 2 THEN hist + 1 ELSE 2

\* The process exits: its locals, and the history of what it logged and called,
\* are gone.
Exit ==
    /\ pc \in {"done", "failed"}
    /\ pc' = "idle"
    /\ issues_by_query' = <<>>
    /\ pos' = 1
    /\ db_counts' = ZeroDb
    /\ new_tickets' = <<>>
    /\ update_tickets' = <<>>
    /\ ni' = 1
    /\ ui' = 1
    /\ things_counts' = ZeroThings
    /\ report' = NoReport
    /\ lastCall' = NoCall
    /\ lastOp' = NoOp
    /\ writes' = 0
    /\ mode' = "none"
    /\ events' = <<>>
    /\ cut' = NoCut
    /\ UNCHANGED <<other, envVars, db, runs, hist, firstId, sent>>

\* update_db returns: the default mode goes on with sync_to_things.
UpdateDbReturns ==
    IF mode = "default"
    THEN pc' = "sync_to_things" /\ hist' = hist
    ELSE Return

\* ------------------------------------------------------------------ update_db
\* The issues in the order the two loops of update_db visit them, each with
\* things_project set to its query's project name.
LoopItems(ibq) ==
    Flatten([q \in DOMAIN ibq |->
        [n \in DOMAIN ibq[q][2] |->
            [ibq[q][2][n] EXCEPT !.things_project = ibq[q][1]]]])

\* has_changes of update_db.
update_db_has_changes(existing, issue) ==
    \/ existing.summary # issue.summary
    \/ existing.description # issue.description
    \/ existing.status # issue.status
    \/ existing.issue_type # issue.issue_type
    \/ existing.things_project # issue.things_project

\* Mutant: the two membership tests are exchanged.
status_became_incomplete(existing, issue) ==
    /\ existing.status # issue.status
    /\ Truthy(existing.things_id)
    /\ existing.status \in completed_status
    /\ issue.status \notin completed_status

status_became_complete(existing, issue) ==
    /\ existing.status # issue.status
    /\ Truthy(existing.things_id)
    /\ existing.status \notin completed_status
    /\ issue.status \in completed_status

\* Mutant: nothing fetched is taken as every stored issue having disappeared.
no_issues_marks_absent(table) ==
    [n \in DOMAIN table |-> [table[n] EXCEPT !.present_in_last_fetch = FALSE]]

\* "if total_issues == 0: return": what update_db leaves of the table.
no_issues_returns(table) == table

\* The fetch of every configured query succeeds.
Fetch ==
    /\ pc = "update_db"
    /\ LET queries == _project_queries(config)
           fetched == [q \in DOMAIN queries |->
                          <<queries[q][1], get_issues(jira, queries[q][2])>>]
           total_issues == SeqSum([q \in DOMAIN fetched |-> Len(fetched[q][2])])
       IN IF total_issues = 0
          THEN /\ UpdateDbReturns
               /\ db' = no_issues_returns(db)
               /\ lastOp' = [op |-> "none", table |-> db]
               /\ UNCHANGED updVars
          ELSE /\ issues_by_query' = fetched
               /\ pos' = 1
               /\ db_counts' = ZeroDb
               /\ pc' = "process"
               /\ hist' = hist
               /\ UNCHANGED <<db, lastOp>>
    /\ events' = Flatten([q \in DOMAIN _project_queries(config) |-> get_issues_events])
    /\ UNCHANGED <<other, cut, envVars, mode, syncVars, report, runs, lastCall,
                   writes, firstId, sent>>

\* Mutant: the queries are fetched one by one while the issues are processed.
fetch_raises_at_any(p) == p \in {"update_db", "process"}

\* Where get_issues can raise: every query is fetched, in the list comprehension,
\* before the first issue is processed.
fetch_raises_at(p) == p = "update_db"

\* get_issues raises for some query: main() logs the error and exits.
FetchFails ==
    /\ fetch_raises_at(pc)
    /\ pc' = "failed"
    /\ hist' = 0
    /\ events' = <<"fields">>
    /\ UNCHANGED <<other, cut, envVars, db, mode, updVars, syncVars, report, runs, lastCall,
                   lastOp, writes, firstId, sent>>

\* Mutant: the exception of the completion call leaves update_db.
completion_except_raises(p, outcome) == IF outcome = "raise" THEN "failed" ELSE p

\* "except Exception" around the completion call: the error is logged and the
\* loop body goes on to save_ticket.
completion_except_logs(p, outcome) == p

\* One iteration of the loops of update_db; outcome is what UpdateTask does
\* when it is called.
ProcessIssue(outcome) ==
    /\ pc = "process"
    /\ pos <= Len(LoopItems(issues_by_query))
    /\ LET issue == LoopItems(issues_by_query)[pos]
           t == issue.ticket_id
           found == HasRow(db, t)
           existing == get_ticket_by_id(db, t)
           changed == found /\ update_db_has_changes(existing, issue)
           called == /\ changed
                     /\ status_became_complete(existing, issue)
                     /\ Truthy(config.THINGS_AUTH_TOKEN)
       IN /\ (outcome = "raise") => called
          /\ db_counts' =
                IF ~found THEN [db_counts EXCEPT !.added = @ + 1]
                ELSE IF changed THEN [db_counts EXCEPT !.updated = @ + 1]
                ELSE [db_counts EXCEPT !.unchanged = @ + 1]
          /\ lastCall' =
                IF called
                THEN Call("UpdateTask", t, existing.things_id,
                          config.THINGS_AUTH_TOKEN, [completed |-> TRUE],
                          outcome, NULL, firstId[t], lastCall.seq + 1)
                ELSE lastCall
          /\ db' = save_ticket(db, issue, runs)
          /\ lastOp' = [op |-> "save_ticket", ticket |-> issue,
                        counted |-> IF ~found THEN "added"
                                    ELSE IF changed THEN "updated" ELSE "unchanged",
                        before |-> IF found THEN <<RowOf(db, t)>> ELSE <<>>,
                        called |-> called, table |-> db]
          /\ writes' = IF db' # db THEN writes + 1 ELSE writes
          /\ firstId' = Remember(firstId, db')
          /\ sent' = Sent(sent, db')
          /\ events' = with_connection(<<"SELECT">>)
                          \o (IF called THEN <<"UpdateTask">> ELSE <<>>)
                          \o save_ticket_events(db, issue)
    /\ pos' = pos + 1
    /\ pc' = completion_except_logs(pc, outcome)
    /\ UNCHANGED <<other, cut, envVars, mode, issues_by_query, syncVars, report, runs, hist>>

\* The summary line of update_db, after the last issue.
UpdateDbReport ==
    /\ pc = "process"
    /\ pos > Len(LoopItems(issues_by_query))
    /\ report' = [report EXCEPT !.db = <<db_counts>>]
    /\ UpdateDbReturns
    /\ UNCHANGED <<other, cut, envVars, db, mode, updVars, syncVars, runs, lastCall, lastOp,
                   writes, firstId, sent, events>>

\* ------------------------------------------------------------------ sync passes
\* The head of sync_to_things and of resync_to_things: read the tickets, return
\* when there is none, else split them.
StartPass(tickets, loop) ==
    /\ new_tickets' = plan_new(tickets)
    /\ update_tickets' = plan_update(tickets)
    /\ ni' = 1
    /\ ui' = 1
    /\ things_counts' = ZeroThings
    /\ IF tickets = <<>> THEN Return ELSE pc' = loop /\ hist' = hist
    /\ events' = with_connection(<<"SELECT">>)
    /\ UNCHANGED <<other, cut, envVars, db, mode, updVars, report, runs, lastCall, lastOp,
                   writes, firstId, sent>>

\* Mutant: the exception of a call leaves the pass and reaches main().
except_reraises(loop, outcome) == IF outcome = "raise" THEN "failed" ELSE loop

\* "except Exception" of the two loops: the error is logged and counted and the
\* loop goes on with the next ticket.
except_continues(loop, outcome) == loop

\* One iteration of the AddTask loop; result is "raise" or what x_things_id is.
AddStep(loop, result) ==
    /\ pc = loop
    /\ ni <= Len(new_tickets)
    /\ LET ticket == new_tickets[ni]
           t == ticket.ticket_id
       IN /\ result \in AddResults(t) \cup {"raise"}
          /\ lastCall' = Call("AddTask", t, NULL, NULL,
                               _build_things_task_data(ticket, TRUE),
                               IF result = "raise" THEN "raise" ELSE "ok",
                               IF result = "raise" THEN NULL ELSE result,
                               firstId[t], lastCall.seq + 1)
          /\ db' = IF result = "raise"
                   THEN SetSyncState(db, t, "unknown")
                   ELSE SetSyncedWithId(db, t, result)
          /\ things_counts' =
                IF result = "raise" THEN [things_counts EXCEPT !.failed = @ + 1]
                ELSE [things_counts EXCEPT !.added = @ + 1]
          /\ lastOp' = [op |-> "writeback", ticket |-> ticket,
                        counted |-> IF result = "raise" THEN "failed" ELSE "added",
                        before |-> <<RowOf(db, t)>>, table |-> db]
          /\ firstId' = Remember(firstId, db')
          /\ sent' = Sent([sent EXCEPT ![t] =
                              IF result = "raise" THEN @
                              ELSE <<_build_things_task_data(ticket, TRUE)>>], db')
    /\ events' = <<"AddTask">> \o with_connection(<<"UPDATE", "commit">>)
    /\ ni' = ni + 1
    /\ writes' = writes + 1
    /\ pc' = except_continues(loop, IF result = "raise" THEN "raise" ELSE "ok")
    /\ cut' = NoCut
    /\ UNCHANGED <<other, envVars, mode, updVars, new_tickets, update_tickets, ui,
                   report, runs, hist>>

\* Mutant: the loop does not look at the token before it calls UpdateTask.
NoAuthToken_never(auth_token) == FALSE

\* "if not auth_token" of the UpdateTask loop.
NoAuthToken(auth_token) == ~Truthy(auth_token)

\* One iteration of the UpdateTask loop; outcome is what UpdateTask does when
\* it is called.
UpdateStep(loop, outcome) ==
    /\ pc = loop
    /\ ni > Len(new_tickets)
    /\ ui <= Len(update_tickets)
    /\ LET ticket == update_tickets[ui]
           t == ticket.ticket_id
           auth_token == config.THINGS_AUTH_TOKEN
       IN IF NoAuthToken(auth_token)
          THEN /\ outcome = "ok"
               /\ things_counts' = [things_counts EXCEPT !.failed = @ + 1]
               /\ lastOp' = [op |-> "skipped", ticket |-> ticket,
                             counted |-> "failed", before |-> <<RowOf(db, t)>>,
                             table |-> db]
               /\ events' = <<>>
               /\ UNCHANGED <<db, lastCall, writes, firstId, sent>>
          ELSE /\ lastCall' = Call("UpdateTask", t, ticket.things_id, auth_token,
                                    _build_things_task_data(ticket, TRUE),
                                    outcome, NULL, firstId[t], lastCall.seq + 1)
               /\ db' = SetSyncState(db, t, IF outcome = "ok" THEN "synced" ELSE "unknown")
               /\ things_counts' =
                     IF outcome = "ok" THEN [things_counts EXCEPT !.updated = @ + 1]
                     ELSE [things_counts EXCEPT !.failed = @ + 1]
               /\ lastOp' = [op |-> "writeback", ticket |-> ticket,
                             counted |-> IF outcome = "ok" THEN "updated" ELSE "failed",
                             before |-> <<RowOf(db, t)>>, table |-> db]
               /\ writes' = writes + 1
               /\ firstId' = Remember(firstId, db')
               /\ sent' = Sent([sent EXCEPT ![t] =
                                   IF outcome = "raise" THEN @
                                   ELSE <<_build_things_task_data(ticket, TRUE)>>], db')
               /\ events' = <<"UpdateTask">> \o with_connection(<<"UPDATE", "commit">>)
    /\ ui' = ui + 1
    /\ pc' = except_continues(loop, outcome)
    /\ cut' = NoCut
    /\ UNCHANGED <<other, envVars, mode, updVars, new_tickets, update_tickets, ni,
                   report, runs, hist>>

\* The summary line of a sync pass, after the last ticket.
PassReport(loop) ==
    /\ pc = loop
    /\ ni > Len(new_tickets)
    /\ ui > Len(update_tickets)
    /\ report' = [report EXCEPT !.things = <<things_counts>>]
    /\ Return
    /\ cut' = NoCut
    /\ UNCHANGED <<other, envVars, db, mode, updVars, syncVars, runs, lastCall, lastOp,
                   writes, firstId, sent, events>>

SyncStart == pc = "sync_to_things" /\ StartPass(get_unsynced_tickets(db), "sync_loop")
SyncAdd == \E result \in ThingsIds \cup {NULL, "raise"} : AddStep("sync_loop", result)
SyncUpdate == \E outcome \in {"ok", "raise"} : UpdateStep("sync_loop", outcome)
SyncReport == PassReport("sync_loop")

ResyncStart == pc = "resync_to_things" /\ StartPass(get_all_tickets(db), "resync_loop")
ResyncAdd == \E result \in ThingsIds \cup {NULL, "raise"} : AddStep("resync_loop", result)
ResyncUpdate == \E outcome \in {"ok", "raise"} : UpdateStep("resync_loop", outcome)
ResyncReport == PassReport("resync_loop")

\* The process is killed inside the loops of a pass (a signal, KeyboardInterrupt:
\* "except Exception" does not catch it). Every writeback made so far was
\* committed by its own connection; the locals are gone.
Interrupt(loop) ==
    /\ pc = loop
    /\ runs < MaxRuns
    /\ pc' = "idle"
    /\ cut' = [pass |-> loop,
               unreached |-> {new_tickets[n].ticket_id : n \in ni..Len(new_tickets)}
                             \cup {update_tickets[n].ticket_id : n \in ui..Len(update_tickets)},
               synced |-> {t \in {new_tickets[n].ticket_id : n \in 1..(ni - 1)}
                                  \cup {update_tickets[n].ticket_id : n \in 1..(ui - 1)} :
                             RowOf(db, t).synced_to_things = "synced"}]
    /\ issues_by_query' = <<>>
    /\ pos' = 1
    /\ db_counts' = ZeroDb
    /\ new_tickets' = <<>>
    /\ update_tickets' = <<>>
    /\ ni' = 1
    /\ ui' = 1
    /\ things_counts' = ZeroThings
    /\ report' = NoReport
    /\ lastCall' = NoCall
    /\ lastOp' = NoOp
    /\ writes' = 0
    /\ mode' = "none"
    /\ hist' = 0
    /\ events' = <<>>
    /\ UNCHANGED <<other, envVars, db, runs, firstId, sent>>

SyncInterrupt == Interrupt("sync_loop")
ResyncInterrupt == Interrupt("resync_loop")

\* ------------------------------------------------------------------ mark_present
\* DatabaseManager.mark_present called with the tickets of the given keys.
MarkPresent(keys) ==
    /\ pc = "idle"
    /\ runs < MaxRuns
    /\ runs' = runs + 1
    /\ mode' = "mark_present"
    /\ pc' = "done"
    /\ LET all_issues == [n \in DOMAIN SelectSeq(TicketOrder, LAMBDA t : t \in keys) |->
                            JiraTicket(SelectSeq(TicketOrder, LAMBDA t : t \in keys)[n], "base")]
       IN db' = mark_present(db, all_issues)
    /\ lastOp' = [op |-> "mark_present", ticket_ids |-> keys, before |-> db]
    /\ hist' = 0
    /\ writes' = IF keys = {} THEN 0 ELSE 1
    /\ sent' = Sent(sent, db')
    /\ events' = with_connection(IF keys = {} THEN <<>> ELSE <<"UPDATE", "commit">>)
    /\ cut' = NoCut
    /\ UNCHANGED <<other, envVars, updVars, syncVars, report, lastCall, firstId>>

\* ------------------------------------------------------------------ second invocation
\* A second process runs main() on the same database file while the first is
\* inside the loops of sync_to_things; it is one more invocation. Its fetch
\* succeeds; what it logs and counts is left out.
OtherStarts ==
    /\ pc = "sync_loop"
    /\ other.pc = "idle"
    /\ runs < MaxRuns
    /\ runs' = runs + 1

\* update_db in the second process, up to the loops: every query is fetched.
OtherUpdateDb ==
    /\ OtherStarts
    /\ LET queries == _project_queries(config)
           fetched == [q \in DOMAIN queries |->
                          <<queries[q][1], get_issues(jira, queries[q][2])>>]
       IN other' = [pc |-> IF LoopItems(fetched) = <<>> THEN "idle" ELSE "process",
                    tickets |-> LoopItems(fetched), pos |-> 1]
    /\ UNCHANGED <<config, jira, db, pc, mode, updVars, syncVars, report,
                   edits, lastCall, lastOp, writes, hist, firstId, sent, events, cut>>

\* One iteration of the loops of update_db in the second process: save_ticket.
OtherProcessIssue ==
    /\ other.pc = "process"
    /\ other.pos <= Len(other.tickets)
    /\ db' = save_ticket(db, other.tickets[other.pos], runs)
    /\ firstId' = Remember(firstId, db')
    /\ sent' = Sent(sent, db')
    /\ other' = [other EXCEPT !.pos = @ + 1]
    /\ UNCHANGED <<config, jira, pc, mode, updVars, syncVars, report, runs,
                   edits, lastCall, lastOp, writes, hist, events, cut>>

\* The head of sync_to_things in the second process: the tickets to AddTask,
\* then the tickets to UpdateTask.
OtherSyncStart ==
    /\ OtherStarts
    /\ LET tickets == get_unsynced_tickets(db)
       IN other' = [pc |-> IF tickets = <<>> THEN "idle" ELSE "sync_loop",
                    tickets |-> plan_new(tickets) \o plan_update(tickets),
                    pos |-> 1]
    /\ UNCHANGED <<config, jira, db, pc, mode, updVars, syncVars, report,
                   edits, lastCall, lastOp, writes, hist, firstId, sent, events, cut>>

\* One iteration of the loops of sync_to_things in the second process; result
\* is "raise", or what x_things_id is (AddTask), or "ok" (UpdateTask).
OtherSyncStep(result) ==
    /\ other.pc = "sync_loop"
    /\ other.pos <= Len(other.tickets)
    /\ LET ticket == other.tickets[other.pos]
           t == ticket.ticket_id
       IN IF NoThingsId(ticket)
          THEN /\ result \in AddResults(t) \cup {"raise"}
               /\ db' = IF result = "raise"
                        THEN SetSyncState(db, t, "unknown")
                        ELSE SetSyncedWithId(db, t, result)
          ELSE /\ result \in {"ok", "raise"}
               /\ db' = IF NoAuthToken(config.THINGS_AUTH_TOKEN) THEN db
                        ELSE SetSyncState(db, t, IF result = "ok" THEN "synced"
                                                                 ELSE "unknown")
    /\ firstId' = Remember(firstId, db')
    /\ sent' = Sent(sent, db')
    /\ other' = [other EXCEPT !.pos = @ + 1]
    /\ UNCHANGED <<config, jira, pc, mode, updVars, syncVars, report, runs,
                   edits, lastCall, lastOp, writes, hist, events, cut>>

\* The second process has visited its last ticket and exits.
OtherExit ==
    /\ other.pc \in {"process", "sync_loop"}
    /\ other.pos > Len(other.tickets)
    /\ other' = [other EXCEPT !.pc = "idle", !.tickets = <<>>, !.pos = 1]
    /\ UNCHANGED <<config, jira, db, pc, mode, updVars, syncVars, report, runs,
                   edits, lastCall, lastOp, writes, hist, firstId, sent, events, cut>>

\* ------------------------------------------------------------------ spec
Next ==
    \/ \E t \in Tickets : \E v \in VersionsOf(t) \cup {"absent"} : JiraChange(t, v)
    \/ \E t \in Tickets : \E qs \in QuerySetsOf(t) : JiraMove(t, qs)
    \/ \E m \in Modes : Main(m)
    \/ Exit
    \/ Fetch
    \/ FetchFails
    \/ \E outcome \in {"ok", "raise"} : ProcessIssue(outcome)
    \/ UpdateDbReport
    \/ SyncStart
    \/ SyncAdd
    \/ SyncUpdate
    \/ SyncReport
    \/ ResyncStart
    \/ ResyncAdd
    \/ ResyncUpdate
    \/ ResyncReport
    \/ \E keys \in SUBSET Tickets : MarkPresent(keys)

Spec == Init /\ [][Next]_vars

\* The same program in an environment that may kill the process inside a pass.
NextInterrupt ==
    \/ Next
    \/ SyncInterrupt
    \/ ResyncInterrupt

SpecInterrupt == Init /\ [][NextInterrupt]_vars

\* The same program with a second invocation at work on the same file.
NextOverlap ==
    \/ Next
    \/ OtherUpdateDb
    \/ OtherProcessIssue
    \/ OtherSyncStart
    \/ \E result \in ThingsIds \cup {NULL, "ok", "raise"} : OtherSyncStep(result)
    \/ OtherExit

SpecOverlap == Init /\ [][NextOverlap]_vars

\* ------------------------------------------------------------------ claims
IdOf(table, t) == IF HasRow(table, t) THEN RowOf(table, t).things_id ELSE NULL
StateOf(table, t) == IF HasRow(table, t) THEN RowOf(table, t).synced_to_things ELSE NULL
Planned == Ids(new_tickets) \cup Ids(update_tickets)

\* C1: once a ticket's stored things_id was non-empty, every call made to Things
\* for that ticket is an UpdateTask with that things_id, never an AddTask.
C1_NeverDuplicates ==
    (lastCall.op # "none" /\ lastCall.known # NULL)
        => (lastCall.op = "UpdateTask" /\ lastCall.task_id = lastCall.known)

\* A sync pass has sent an UpdateTask for a ticket that AddTask created before.
C1_Witness ==
    /\ pc \in {"sync_loop", "resync_loop"}
    /\ lastCall.op = "UpdateTask"
    /\ lastCall.known # NULL
    /\ lastCall.task_id = lastCall.known
    /\ lastCall.kwargs # [completed |-> TRUE]

\* C2: a default run (update_db, then sync_to_things) that follows a completed
\* default run over an unchanged JIRA writes nothing to the table and reports
\* 0 added and 0 updated.
C2_SecondRunWritesNothing ==
    (pc = "done" /\ mode = "default" /\ hist = 2)
        => /\ writes = 0
           /\ \A n \in DOMAIN report.db :
                 report.db[n].added = 0 /\ report.db[n].updated = 0
           /\ \A n \in DOMAIN report.things :
                 report.things[n].added = 0 /\ report.things[n].updated = 0

\* The state right after the head of sync_to_things, the table as it was read.
SyncPlanned == pc = "sync_loop" /\ ni = 1 /\ ui = 1
SyncFoundNone ==
    pc = "done" /\ mode \in {"sync_to_things", "default"} /\ report.things = <<>>
InSyncPass == pc = "sync_loop" \/ (pc = "done" /\ mode \in {"sync_to_things", "default"})
KeysInState(states) ==
    {db[n].ticket_id : n \in {m \in DOMAIN db : db[m].synced_to_things \in states}}

\* C3 as claimed: sync_to_things plans exactly the rows whose state is not synced
\* (the not synced and the unknown ones).
C3_PlansAllButSynced ==
    /\ SyncPlanned => Planned = KeysInState({"not synced", "unknown"})
    /\ SyncFoundNone => KeysInState({"not synced", "unknown"}) = {}

\* C3 amended: sync_to_things plans exactly the rows whose state is 'not synced';
\* no synced and no unknown row is planned or sent to Things.
C3_PlansNotSynced ==
    /\ SyncPlanned => Planned = KeysInState({"not synced"})
    /\ SyncFoundNone => KeysInState({"not synced"}) = {}
    /\ (InSyncPass /\ lastOp.op \in {"writeback", "skipped"})
          => lastOp.before[1].synced_to_things = "not synced"

\* sync_to_things has sent a ticket to Things while another row is unknown.
C3_Witness ==
    /\ pc = "sync_loop"
    /\ lastOp.op = "writeback"
    /\ \E n \in DOMAIN db : /\ db[n].synced_to_things = "unknown"
                            /\ db[n].ticket_id \notin Planned

\* C4: after an update_db pass that fetched some issue, every row has
\* present_in_last_fetch = TRUE exactly when its ticket was fetched in the pass.
C4_PresenceFollowsFetch ==
    (pc \in {"sync_to_things", "sync_loop", "done"} /\ report.db # <<>>)
        => \A n \in DOMAIN db :
              db[n].present_in_last_fetch
                 = (db[n].ticket_id \in Ids(LoopItems(issues_by_query)))

\* C5: mark_present with a non-empty list sets a row to 'not synced' exactly when
\* the row's present flag changes and the row was synced; every other row keeps
\* its state.
C5_DemotesOnlySyncedFlips ==
    (lastOp.op = "mark_present" /\ lastOp.ticket_ids # {})
        => /\ Len(db) = Len(lastOp.before)
           /\ \A n \in DOMAIN db :
                 LET old == lastOp.before[n]
                     flips == db[n].present_in_last_fetch # old.present_in_last_fetch
                 IN /\ db[n].ticket_id = old.ticket_id
                    /\ db[n].synced_to_things =
                          IF flips /\ old.synced_to_things = "synced"
                          THEN "not synced"
                          ELSE old.synced_to_things

\* mark_present has flipped the present flag of a synced row, next to an unknown
\* row whose flag stayed.
C5_Witness ==
    /\ lastOp.op = "mark_present"
    /\ lastOp.ticket_ids # {}
    /\ \E n \in DOMAIN db :
          /\ lastOp.before[n].synced_to_things = "synced"
          /\ db[n].present_in_last_fetch # lastOp.before[n].present_in_last_fetch
          /\ db[n].synced_to_things = "not synced"
    /\ \E n \in DOMAIN db :
          /\ lastOp.before[n].synced_to_things = "unknown"
          /\ db[n].present_in_last_fetch = lastOp.before[n].present_in_last_fetch

\* C6: mark_present with an empty list changes no row.
C6_EmptyListIsNoOp ==
    (lastOp.op = "mark_present" /\ lastOp.ticket_ids = {}) => db = lastOp.before

\* mark_present was called with an empty list on a table holding a synced row
\* marked present.
C6_Witness ==
    /\ lastOp.op = "mark_present"
    /\ lastOp.ticket_ids = {}
    /\ \E n \in DOMAIN db : /\ db[n].present_in_last_fetch
                            /\ db[n].synced_to_things = "synced"

\* The five fields the claim C7 names.
SameFiveFields(row, ticket) ==
    /\ row.summary = ticket.summary
    /\ row.description = ticket.description
    /\ row.status = ticket.status
    /\ row.issue_type = ticket.issue_type
    /\ row.things_project = ticket.things_project

\* C7: when summary, description, status, issue_type and things_project of the
\* incoming ticket equal the stored row's, save_ticket leaves the row as it was
\* and update_db counts the ticket as unchanged.
C7_SameFiveFieldsNoWrite ==
    (/\ lastOp.op = "save_ticket"
     /\ lastOp.before # <<>>
     /\ SameFiveFields(lastOp.before[1], lastOp.ticket))
        => /\ RowOf(db, lastOp.ticket.ticket_id) = lastOp.before[1]
           /\ lastOp.counted = "unchanged"

\* The fields of an incoming ticket that save_ticket stores.
StoredFieldsOf(r) ==
    <<r.summary, r.description, r.has_subtasks, r.status, r.issue_type,
      r.sprint_name, r.sprint_status, r.sprint_end_time, r.things_project>>

\* C8: when the incoming ticket differs from the stored row in a compared field,
\* save_ticket stores the ticket's values and sets the row to 'not synced',
\* whatever its state was.
C8_ChangeForcesNotSynced ==
    (/\ lastOp.op = "save_ticket"
     /\ lastOp.before # <<>>
     /\ ~SameFiveFields(lastOp.before[1], lastOp.ticket))
        => LET row == RowOf(db, lastOp.ticket.ticket_id)
           IN /\ StoredFieldsOf(row) = StoredFieldsOf(lastOp.ticket)
              /\ row.synced_to_things = "not synced"

\* save_ticket has stored a change to a row that was synced.
C8_Witness ==
    /\ lastOp.op = "save_ticket"
    /\ lastOp.before # <<>>
    /\ ~SameFiveFields(lastOp.before[1], lastOp.ticket)
    /\ lastOp.before[1].synced_to_things = "synced"
    /\ RowOf(db, lastOp.ticket.ticket_id).synced_to_things = "not synced"

\* C9: a ticket with no row is inserted as 'not synced' with no things_id; the
\* next sync_to_things plans it for AddTask; and an AddTask that returns leaves
\* the row synced with the returned things_id.
C9_NewTicketIsCreated ==
    /\ (lastOp.op = "save_ticket" /\ lastOp.before = <<>>)
          => /\ StateOf(db, lastOp.ticket.ticket_id) = "not synced"
             /\ ~Truthy(IdOf(db, lastOp.ticket.ticket_id))
    /\ (pc = "sync_loop" /\ ni = 1 /\ ui = 1)
          => \A n \in DOMAIN db :
                (db[n].synced_to_things = "not synced" /\ ~Truthy(db[n].things_id))
                   => db[n].ticket_id \in Ids(new_tickets)
    /\ (lastOp.op = "writeback" /\ lastOp.counted = "added")
          => /\ lastCall.op = "AddTask"
             /\ lastCall.ticket_id = lastOp.ticket.ticket_id
             /\ StateOf(db, lastCall.ticket_id) = "synced"
             /\ IdOf(db, lastCall.ticket_id) = lastCall.returned

\* A ticket inserted in this run was created in Things and its id stored.
C9_Witness ==
    /\ pc = "sync_loop"
    /\ lastOp.op = "writeback"
    /\ lastOp.counted = "added"
    /\ lastOp.before[1].added_to_db = runs
    /\ lastOp.before[1].synced_to_things = "not synced"
    /\ Truthy(lastCall.returned)
    /\ IdOf(db, lastCall.ticket_id) = lastCall.returned

\* C10: a stored things_id that is non-empty never becomes empty and never
\* changes; save_ticket keeps the stored one, and an empty one becomes non-empty
\* only by an AddTask for that ticket that returned.
C10_ThingsIdIsStable ==
    /\ \A t \in Tickets : firstId[t] # NULL => IdOf(db, t) = firstId[t]
    /\ lastOp.op = "mark_present"
          => \A n \in DOMAIN db : db[n].things_id = lastOp.before[n].things_id
    /\ lastOp.op \in {"save_ticket", "writeback", "skipped"}
          => LET t == lastOp.ticket.ticket_id
                 old == IF lastOp.before = <<>> THEN NULL
                        ELSE lastOp.before[1].things_id
             IN IF lastOp.op = "writeback" /\ lastOp.counted = "added"
                THEN /\ ~Truthy(old)
                     /\ lastCall.op = "AddTask"
                     /\ lastCall.ticket_id = t
                     /\ lastCall.outcome = "ok"
                     /\ IdOf(db, t) = lastCall.returned
                ELSE IdOf(db, t) = old

\* save_ticket has rewritten a row that had a things_id, and the id is still there.
C10_Witness ==
    /\ lastOp.op = "save_ticket"
    /\ lastOp.before # <<>>
    /\ Truthy(lastOp.before[1].things_id)
    /\ RowOf(db, lastOp.ticket.ticket_id) # lastOp.before[1]
    /\ RowOf(db, lastOp.ticket.ticket_id).things_id = lastOp.before[1].things_id

\* C11: for a ticket sent to AddTask, a call that returns leaves the row synced
\* with the returned things_id; a call that raises leaves the row unknown and
\* its things_id empty.
C11_AddTaskWriteback ==
    (lastOp.op = "writeback" /\ lastCall.op = "AddTask")
        => LET t == lastOp.ticket.ticket_id
               old == lastOp.before[1]
           IN /\ lastCall.ticket_id = t
              /\ t \in Ids(new_tickets)
              /\ ~Truthy(old.things_id)
              /\ IF lastCall.outcome = "ok"
                 THEN /\ StateOf(db, t) = "synced"
                      /\ IdOf(db, t) = lastCall.returned
                 ELSE /\ StateOf(db, t) = "unknown"
                      /\ ~Truthy(IdOf(db, t))

\* AddTask has raised for a ticket after it returned for another one.
C11_Witness ==
    /\ lastOp.op = "writeback"
    /\ lastCall.op = "AddTask"
    /\ lastCall.outcome = "raise"
    /\ StateOf(db, lastCall.ticket_id) = "unknown"
    /\ things_counts.added = 1

\* C12: for a ticket sent to UpdateTask with THINGS_AUTH_TOKEN configured, a call
\* that returns leaves the row synced, a call that raises leaves it unknown, and
\* the row's things_id is what it was.
C12_UpdateTaskWriteback ==
    (lastOp.op = "writeback" /\ lastCall.op = "UpdateTask")
        => LET t == lastOp.ticket.ticket_id
               old == lastOp.before[1]
           IN /\ lastCall.ticket_id = t
              /\ t \in Ids(update_tickets)
              /\ Truthy(config.THINGS_AUTH_TOKEN)
              /\ StateOf(db, t) = IF lastCall.outcome = "ok" THEN "synced" ELSE "unknown"
              /\ Truthy(old.things_id)
              /\ IdOf(db, t) = old.things_id

\* UpdateTask has raised for a ticket that has a things_id.
C12_Witness ==
    /\ lastOp.op = "writeback"
    /\ lastCall.op = "UpdateTask"
    /\ lastCall.outcome = "raise"
    /\ StateOf(db, lastCall.ticket_id) = "unknown"
    /\ IdOf(db, lastCall.ticket_id) = lastCall.task_id

\* C13: with no THINGS_AUTH_TOKEN configured, a ticket planned for UpdateTask
\* is counted as failed, no UpdateTask call is made, and its row is left as it
\* was; with a token no ticket is skipped.
C13_NoTokenSkips ==
    /\ lastOp.op = "skipped"
          => /\ config.THINGS_AUTH_TOKEN = NULL
             /\ lastOp.ticket.ticket_id \in Ids(update_tickets)
             /\ RowOf(db, lastOp.ticket.ticket_id) = lastOp.before[1]
             /\ things_counts.failed >= 1
    /\ (config.THINGS_AUTH_TOKEN = NULL /\ pc \in {"sync_loop", "resync_loop", "done"})
          => /\ lastCall.op # "UpdateTask"
             /\ lastOp.op \in {"writeback", "skipped"} => things_counts.updated = 0
             /\ (pc # "done" /\ ni > Len(new_tickets))
                   => (ui > 1 => lastOp.op = "skipped")

\* sync_to_things has skipped a ticket for want of a token; its row is still
\* 'not synced'.
C13_Witness ==
    /\ pc = "sync_loop"
    /\ lastOp.op = "skipped"
    /\ config.THINGS_AUTH_TOKEN = NULL
    /\ StateOf(db, lastOp.ticket.ticket_id) = "not synced"
    /\ things_counts.failed = 1

CountSum(counts) == counts.added + counts.updated + counts.failed

\* C14: a call that raises never ends a sync pass: the tickets are processed one
\* by one, each once, and the pass reports added + updated + failed = the number
\* of planned tickets.
C14_FailuresDoNotAbort ==
    /\ Ids(new_tickets) \cap Ids(update_tickets) = {}
    /\ Cardinality(Planned) = Len(new_tickets) + Len(update_tickets)
    /\ pc \in {"sync_loop", "resync_loop"}
          => /\ CountSum(things_counts) = (ni - 1) + (ui - 1)
             /\ ni <= Len(new_tickets) + 1
             /\ ui <= Len(update_tickets) + 1
             /\ ui > 1 => ni > Len(new_tickets)
    /\ pc = "failed" => (new_tickets = <<>> /\ update_tickets = <<>>)
    /\ (pc = "done" /\ Planned # {})
          => /\ report.things = <<things_counts>>
             /\ CountSum(things_counts) = Len(new_tickets) + Len(update_tickets)
             /\ ni = Len(new_tickets) + 1
             /\ ui = Len(update_tickets) + 1

\* A pass has ended after a call raised for one ticket and a later call
\* returned for another.
C14_Witness ==
    /\ pc = "done"
    /\ report.things # <<>>
    /\ things_counts.failed = 1
    /\ lastOp.op = "writeback"
    /\ lastOp.counted \in {"added", "updated"}
    /\ CountSum(things_counts) = 2

\* C15: when get_issues raises for a query, the first or a later one, the run
\* ends without having touched the table: no row is inserted or updated and no
\* state changes.
C15_FailedFetchWritesNothing ==
    pc = "failed"
        => /\ lastOp = NoOp
           /\ writes = 0
           /\ lastCall = NoCall
           /\ report = NoReport

\* A fetch has failed while the first query matches an issue whose stored row is
\* out of date.
C15_Witness ==
    /\ pc = "failed"
    /\ \E t \in Tickets : /\ jira[t].version # "absent"
                          /\ "JIRA_JQL_QUERY" \in jira[t].queries
                          /\ HasRow(db, t)
                          /\ RowOf(db, t).summary # Fields(jira[t].version).summary

\* The case of C16: update_db has processed a ticket whose fetched status is a
\* completed one while the stored row had another status and a things_id.
BecameComplete ==
    /\ lastOp.op = "save_ticket"
    /\ lastOp.before # <<>>
    /\ lastOp.ticket.status \in completed_status
    /\ lastOp.before[1].status \notin completed_status
    /\ Truthy(lastOp.before[1].things_id)

CompletionCallMade ==
    /\ lastOp.called
    /\ lastCall.op = "UpdateTask"
    /\ lastCall.ticket_id = lastOp.ticket.ticket_id
    /\ lastCall.task_id = lastOp.before[1].things_id
    /\ lastCall.auth_token = config.THINGS_AUTH_TOKEN
    /\ lastCall.kwargs = [completed |-> TRUE]

\* C16 as claimed: whenever the fetched status is completed, the stored one is
\* not and the row has a things_id, update_db calls UpdateTask(completed=True)
\* for that things_id while it processes the ticket.
C16_CompletionIsSent == BecameComplete => CompletionCallMade

\* C16 amended: the call is made when THINGS_AUTH_TOKEN is configured; without a
\* token update_db makes no call.
C16_CompletionIsSentWithToken ==
    /\ (BecameComplete /\ config.THINGS_AUTH_TOKEN # NULL) => CompletionCallMade
    /\ (lastOp.op = "save_ticket" /\ config.THINGS_AUTH_TOKEN = NULL)
          => (~lastOp.called /\ lastCall.op # "UpdateTask")

\* update_db has sent the completion of a ticket that sync_to_things created.
C16_Witness ==
    /\ BecameComplete
    /\ CompletionCallMade
    /\ pc = "process"
    /\ firstId[lastOp.ticket.ticket_id] = lastCall.task_id

\* The last call made to Things is a completion call of update_db that raised.
CompletionFailed ==
    /\ lastCall.op = "UpdateTask"
    /\ lastCall.kwargs = [completed |-> TRUE]
    /\ lastCall.outcome = "raise"

\* C17: when the completion call of update_db raises, update_db goes on: the
\* ticket is saved as 'not synced' with its things_id, every fetched issue is
\* processed, and the sync_to_things that follows plans the ticket for
\* UpdateTask and calls it with the stored things_id and the task data.
C17_CompletionFailureIsRetried ==
    /\ (lastOp.op = "save_ticket" /\ lastOp.called /\ CompletionFailed)
          => LET t == lastOp.ticket.ticket_id
             IN /\ pc # "failed"
                /\ lastOp.counted = "updated"
                /\ StateOf(db, t) = "not synced"
                /\ IdOf(db, t) = lastCall.task_id
                /\ RowOf(db, t).status = lastOp.ticket.status
    /\ report.db # <<>>
          => db_counts.added + db_counts.updated + db_counts.unchanged
                = Len(LoopItems(issues_by_query))
    /\ (pc = "sync_loop" /\ ni = 1 /\ ui = 1 /\ CompletionFailed)
          => \E k \in DOMAIN update_tickets :
                /\ update_tickets[k].ticket_id = lastCall.ticket_id
                /\ update_tickets[k].things_id = lastCall.task_id
    /\ (pc = "done" /\ mode = "default") => ~CompletionFailed
    /\ (pc = "sync_loop" /\ lastOp.op = "writeback" /\ lastCall.op = "UpdateTask")
          => /\ lastCall.task_id = IdOf(db, lastOp.ticket.ticket_id)
             /\ lastCall.kwargs = _build_things_task_data(lastOp.ticket, TRUE)

\* The completion call raised for a ticket, update_db saved the ticket and
\* finished, and sync_to_things has planned the ticket for UpdateTask.
C17_Witness ==
    /\ pc = "sync_loop"
    /\ mode = "default"
    /\ CompletionFailed
    /\ lastOp.op = "save_ticket"
    /\ report.db # <<>>
    /\ lastCall.ticket_id \in Ids(update_tickets)
    /\ StateOf(db, lastCall.ticket_id) = "not synced"
    /\ RowOf(db, lastCall.ticket_id).status \in completed_status

\* C18: whenever a row is synced, the task data of the last call for the ticket
\* that returned was built from the values the row holds now: no operation
\* leaves a row synced after its content changed without sending the new
\* content.
C18_SyncedMeansSent ==
    \A n \in DOMAIN db :
        db[n].synced_to_things = "synced"
            => sent[db[n].ticket_id]
                  = <<_build_things_task_data(AsTicket(db[n]), TRUE)>>

\* A run has ended with a row synced again after its content had changed.
C18_Witness ==
    /\ pc = "done"
    /\ \E n \in DOMAIN db :
          /\ db[n].synced_to_things = "synced"
          /\ db[n].last_updated > db[n].added_to_db
          /\ sent[db[n].ticket_id] = <<_build_things_task_data(AsTicket(db[n]), TRUE)>>

\* A default run has ended, with a token configured, in which no call to Things
\* raised.
AcceptedRun ==
    /\ pc = "done"
    /\ mode = "default"
    /\ config.THINGS_AUTH_TOKEN # NULL
    /\ things_counts.failed = 0
    /\ ~CompletionFailed

\* C19 as claimed: over an unchanged JIRA, with a token, once Things accepts every
\* call the default runs bring every row to synced, the rows of earlier failed
\* attempts too.  Stated for the second of two consecutive default runs: the
\* table it leaves is the one every later run leaves.
C19_AllRowsGetSynced ==
    (AcceptedRun /\ hist = 2)
        => \A n \in DOMAIN db : db[n].synced_to_things = "synced"

\* C19 amended: such a run leaves no row 'not synced': every row it found
\* 'not synced' is synced; a row left unknown by an earlier failed attempt is
\* not selected and stays unknown.
C19_NotSyncedRowsGetSynced ==
    AcceptedRun
        => /\ \A n \in DOMAIN db : db[n].synced_to_things \in {"synced", "unknown"}
           /\ \A n \in DOMAIN db :
                 db[n].synced_to_things = "unknown" => db[n].ticket_id \notin Planned

\* A default run in which every call returned has synced a row and left another
\* row unknown.
C19_Witness ==
    /\ AcceptedRun
    /\ report.things # <<>>
    /\ things_counts.added + things_counts.updated >= 1
    /\ \E n \in DOMAIN db : db[n].synced_to_things = "unknown"
    /\ \E n \in DOMAIN db : db[n].synced_to_things = "synced"

\* The table before the last operation on it.
TableBefore == IF lastOp.op = "mark_present" THEN lastOp.before ELSE lastOp.table

\* The rows the last operation on the table has set to unknown.
BecameUnknown ==
    {db[n].ticket_id : n \in {m \in DOMAIN db :
        /\ db[m].synced_to_things = "unknown"
        /\ (m \in DOMAIN TableBefore => TableBefore[m].synced_to_things # "unknown")}}

\* C20: a row becomes unknown only in the writeback of an AddTask or UpdateTask
\* call for its ticket that raised; save_ticket, mark_present and a skipped
\* update set no row to unknown.
C20_UnknownOnlyAfterFailure ==
    lastOp.op # "none"
        => /\ lastOp.op \in {"save_ticket", "mark_present", "skipped"}
                 => BecameUnknown = {}
           /\ lastOp.op = "writeback"
                 => /\ BecameUnknown \subseteq {lastOp.ticket.ticket_id}
                    /\ BecameUnknown # {}
                          => /\ lastCall.op \in {"AddTask", "UpdateTask"}
                             /\ lastCall.ticket_id = lastOp.ticket.ticket_id
                             /\ lastCall.outcome = "raise"
                             /\ lastOp.counted = "failed"

\* resync_to_things has set a synced row to unknown after its call raised.
C20_Witness ==
    /\ pc = "resync_loop"
    /\ lastOp.op = "writeback"
    /\ lastCall.outcome = "raise"
    /\ lastOp.before[1].synced_to_things = "synced"
    /\ BecameUnknown = {lastCall.ticket_id}

\* C21: no operation removes a row: after every operation on the table each row
\* that was there is still there, at its place, with its ticket_id; a ticket
\* that has left JIRA keeps its row and its things_id.
C21_RowsAreNeverDeleted ==
    /\ lastOp.op # "none"
          => /\ Len(db) >= Len(TableBefore)
             /\ \A n \in DOMAIN TableBefore :
                   /\ db[n].ticket_id = TableBefore[n].ticket_id
                   /\ Truthy(TableBefore[n].things_id)
                         => db[n].things_id = TableBefore[n].things_id
    /\ \A t \in Tickets : firstId[t] # NULL => HasRow(db, t)
    /\ Cardinality(Ids(db)) = Len(db)

\* update_db has processed a fetch that lacks a ticket created in Things before;
\* the ticket's row and things_id are still there.
C21_Witness ==
    /\ pc = "done"
    /\ report.db # <<>>
    /\ \E t \in Tickets :
          /\ jira[t].version = "absent"
          /\ HasRow(db, t)
          /\ Truthy(IdOf(db, t))
          /\ t \notin Ids(LoopItems(issues_by_query))

\* The labels the running update_db pass supplies for a ticket.
LabelsSupplied(t) ==
    {LoopItems(issues_by_query)[n].things_project :
        n \in {m \in DOMAIN LoopItems(issues_by_query) :
                  LoopItems(issues_by_query)[m].ticket_id = t}}

\* C22: a things_project that is set stays as it is through an update_db pass
\* that supplies no non-empty things_project for the ticket; a ticket that
\* comes without one does not clear it.
C22_LabelIsKept ==
    (/\ lastOp.op = "save_ticket"
     /\ lastOp.before # <<>>
     /\ Truthy(lastOp.before[1].things_project)
     /\ \A l \in LabelsSupplied(lastOp.ticket.ticket_id) : ~Truthy(l))
        => RowOf(db, lastOp.ticket.ticket_id).things_project
              = lastOp.before[1].things_project

\* C23: last_updated of a row changes only when save_ticket finds the ticket
\* changed; an unchanged re-save, mark_present and the writebacks of the sync
\* passes leave it, and added_to_db never changes.
C23_TimestampsMoveOnlyOnChange ==
    lastOp.op # "none"
        => /\ \A n \in DOMAIN TableBefore :
                 /\ db[n].added_to_db = TableBefore[n].added_to_db
                 /\ db[n].last_updated # TableBefore[n].last_updated
                       => /\ lastOp.op = "save_ticket"
                          /\ lastOp.ticket.ticket_id = db[n].ticket_id
                          /\ has_changes(TableBefore[n], lastOp.ticket)
                          /\ db[n].last_updated = runs
           /\ (lastOp.op = "save_ticket" /\ lastOp.before # <<>>
                  /\ ~has_changes(lastOp.before[1], lastOp.ticket))
                 => db = TableBefore
           /\ (lastOp.op = "save_ticket" /\ lastOp.before = <<>>)
                 => /\ db[Len(db)].added_to_db = runs
                    /\ db[Len(db)].last_updated = runs

\* A sync pass of a later run has written a row back: last_updated is still
\* that of the run that stored the ticket.
C23_Witness ==
    /\ lastOp.op = "writeback"
    /\ lastOp.counted \in {"added", "updated"}
    /\ lastOp.before[1].last_updated < runs
    /\ RowOf(db, lastOp.ticket.ticket_id).last_updated = lastOp.before[1].last_updated
    /\ RowOf(db, lastOp.ticket.ticket_id).synced_to_things = "synced"

\* The list a pass has just split, the table being as the pass read it.
JustPlanned == pc \in {"sync_loop", "resync_loop"} /\ ni = 1 /\ ui = 1
PlannerInput ==
    IF pc = "sync_loop" THEN get_unsynced_tickets(db) ELSE get_all_tickets(db)
PlaceOf(ticket) == CHOOSE n \in DOMAIN PlannerInput : PlannerInput[n] = ticket

\* C24: the planner splits its input: new_tickets holds exactly the tickets
\* with an empty things_id, update_tickets exactly the others, no ticket is in
\* both, none is left out, and each list is in the order of the input.
C24_PlannerPartitions ==
    JustPlanned
        => /\ \A k \in DOMAIN new_tickets :
                 /\ new_tickets[k].things_id \in {NULL, ""}
                 /\ \E n \in DOMAIN PlannerInput : PlannerInput[n] = new_tickets[k]
           /\ \A k \in DOMAIN update_tickets :
                 /\ update_tickets[k].things_id \notin {NULL, ""}
                 /\ \E n \in DOMAIN PlannerInput : PlannerInput[n] = update_tickets[k]
           /\ \A n \in DOMAIN PlannerInput :
                 \/ \E k \in DOMAIN new_tickets : new_tickets[k] = PlannerInput[n]
                 \/ \E k \in DOMAIN update_tickets : update_tickets[k] = PlannerInput[n]
           /\ Len(new_tickets) + Len(update_tickets) = Len(PlannerInput)
           /\ \A j, k \in DOMAIN new_tickets :
                 j < k => PlaceOf(new_tickets[j]) < PlaceOf(new_tickets[k])
           /\ \A j, k \in DOMAIN update_tickets :
                 j < k => PlaceOf(update_tickets[j]) < PlaceOf(update_tickets[k])

\* resync_to_things has split a table of two rows that have a things_id.
C24_Witness ==
    /\ JustPlanned
    /\ pc = "resync_loop"
    /\ Len(update_tickets) = 2
    /\ PlaceOf(update_tickets[1]) < PlaceOf(update_tickets[2])

\* C25: resync_to_things plans every row, whatever its state, sends each once
\* and writes the outcome back as sync_to_things does; the default mode runs
\* update_db to its end and then sync_to_things, which plans the tickets that
\* update_db has stored or changed in this invocation.
C25_ModesCoverTheirRows ==
    /\ (JustPlanned /\ pc = "resync_loop")
          => /\ Planned = Ids(db)
             /\ Len(new_tickets) + Len(update_tickets) = Len(db)
    /\ (pc = "done" /\ mode = "resync_to_things" /\ db # <<>>)
          => /\ report.things = <<things_counts>>
             /\ CountSum(things_counts) = Len(db)
    /\ (pc = "resync_loop" /\ lastOp.op = "writeback")
          => StateOf(db, lastOp.ticket.ticket_id)
                = IF lastCall.outcome = "ok" THEN "synced" ELSE "unknown"
    /\ (mode = "default" /\ pc \in {"sync_to_things", "sync_loop", "done"})
          => /\ pos > Len(LoopItems(issues_by_query))
             /\ issues_by_query # <<>> => report.db = <<db_counts>>
    /\ (mode = "default" /\ JustPlanned)
          => \A n \in DOMAIN db : db[n].last_updated = runs => db[n].ticket_id \in Planned
    /\ (mode = "default" /\ pc = "done" /\ report.things = <<>>)
          => \A n \in DOMAIN db : db[n].last_updated # runs

\* resync_to_things has sent a synced row again while it also planned a row
\* that was unknown.
C25_Witness ==
    /\ pc = "resync_loop"
    /\ lastOp.op = "writeback"
    /\ lastOp.before[1].synced_to_things = "synced"
    /\ \E n \in DOMAIN TableBefore :
          /\ TableBefore[n].synced_to_things = "unknown"
          /\ TableBefore[n].ticket_id \in Planned

\* The calls that go over the network: to JIRA and to Things.
NetworkCalls == {"fields", "search_issues", "AddTask", "UpdateTask"}

OpenBefore(evs, i) ==
    Cardinality({j \in 1..(i - 1) : evs[j] = "connect"})
        - Cardinality({j \in 1..(i - 1) : evs[j] = "close"})

\* C26: no connection to the table is open while a request to JIRA or a call
\* to Things is made, and none stays open after a step.
C26_NoConnectionSpansACall ==
    /\ \A i \in DOMAIN events :
          events[i] \in NetworkCalls => OpenBefore(events, i) = 0
    /\ \A i \in DOMAIN events :
          events[i] = "connect" => OpenBefore(events, i) = 0
    /\ OpenBefore(events, Len(events) + 1) = 0

\* update_db has read a row, made the completion call and saved the ticket.
C26_Witness ==
    /\ pc = "process"
    /\ events = <<"connect", "SELECT", "close", "UpdateTask",
                  "connect", "SELECT", "UPDATE", "commit", "close">>

C28_SyncedHasThingsId ==
    \A n \in DOMAIN db :
        db[n].synced_to_things = "synced" => Truthy(db[n].things_id)

UpdateDbJustReturned ==
    \/ mode = "update_db" /\ pc = "done"
    \/ mode = "default" /\ pc = "sync_to_things"
FetchedNothing ==
    \A q \in DOMAIN _project_queries(config) :
        get_issues(jira, _project_queries(config)[q][2]) = <<>>

\* C29: when every configured query returns no issue, update_db leaves the
\* table as it was: no row is inserted or updated, no present_in_last_fetch and
\* no synced_to_things changes, and nothing is counted.
C29_EmptyFetchChangesNothing ==
    (UpdateDbJustReturned /\ FetchedNothing)
        => /\ lastOp = [op |-> "none", table |-> db]
           /\ writes = 0
           /\ report.db = <<>>

\* update_db has returned after a fetch of no issue while the table holds a
\* synced row that was present in the fetch before.
C29_Witness ==
    /\ UpdateDbJustReturned
    /\ FetchedNothing
    /\ \E n \in DOMAIN db :
          db[n].synced_to_things = "synced" /\ db[n].present_in_last_fetch

\* C30: in one update_db pass every distinct fetched ticket id is written at
\* most once and counted once in added + updated + unchanged, also when more
\* than one query returns it.
C30_EachTicketOncePerPass ==
    (UpdateDbJustReturned /\ report.db # <<>>)
        => /\ db_counts.added + db_counts.updated + db_counts.unchanged
                = Cardinality(Ids(LoopItems(issues_by_query)))
           /\ writes <= Cardinality(Ids(LoopItems(issues_by_query)))

\* The row a writeback of sync_to_things found differs in a stored field from
\* the ticket the pass had read.
ChangedSinceRead ==
    /\ pc = "sync_loop"
    /\ lastOp.op = "writeback"
    /\ StoredFieldsOf(lastOp.before[1]) # StoredFieldsOf(lastOp.ticket)
\* AddTask has returned for a ticket that had a things_id stored before.
CreatedTwice ==
    /\ lastCall.op = "AddTask"
    /\ lastCall.outcome = "ok"
    /\ lastCall.known # NULL

\* C31: when a second invocation works on the same table during a
\* sync_to_things pass, a row that save_ticket changed after the pass had read
\* it is not left synced by the writeback of the pass, and no ticket that has
\* a task in Things is created there again.
C31_OverlapLosesNothing ==
    /\ ChangedSinceRead => StateOf(db, lastOp.ticket.ticket_id) # "synced"
    /\ ~CreatedTwice

====
